---- MODULE Spec2Model ----
(***************************************************************************)
(* Gray-Scott reaction-diffusion stepper of src/Ex2/rd_kernel.cu:          *)
(* the host wrapper rd(), the one-time initializeConcentrations(), the     *)
(* per-cell kernel rd_kernel() and the stencil calculateLaplacian().       *)
(*                                                                         *)
(* Numbers.  A float is a binary fixed-point number: the integer n stands  *)
(* for n / Scale, and every product and quotient is rounded toward zero to *)
(* a multiple of 1/Scale (the code rounds to the nearest float).  unsigned *)
(* int values are kept modulo 2^32 as pairs of 16-bit halves.              *)
(*                                                                         *)
(* Grid.  The kernel is launched in blocks of blockDim x blockDim threads. *)
(* The source uses 16; the model runs the same code with an edge of 2, so  *)
(* that every interleaving of the threads of a grid can be enumerated.     *)
(***************************************************************************)
EXTENDS Integers, Naturals, Sequences, FiniteSets, TLC

----------------------------------------------------------------------------
(* float *)

FracBits == 26
Scale == 2 ^ FracBits
HalfScale == 2 ^ (FracBits \div 2)

Abs(a) == IF a < 0 THEN 0 - a ELSE a
Sgn(a, b) == IF (a < 0) = (b < 0) THEN 1 ELSE 0 - 1

(* a / b toward zero, as integers *)
Quo(a, b) == Sgn(a, b) * (Abs(a) \div Abs(b))

(* the float n / d *)
Fix(n, d) == n * (Scale \div d) + (n * (Scale % d)) \div d

(* the float product a * b *)
MulNat(a, b) ==
  LET a1 == a \div HalfScale
      a0 == a % HalfScale
      b1 == b \div HalfScale
      b0 == b % HalfScale
  IN  a1 * b1 + ((a1 * b0 + a0 * b1) + ((a0 * b0) \div HalfScale)) \div HalfScale
FMul(a, b) == Sgn(a, b) * MulNat(Abs(a), Abs(b))

(* the float quotient a / b, by binary long division of the remainder *)
RECURSIVE FracDiv(_, _, _)
FracDiv(r, b, bits) ==
  IF bits = 0 THEN 0
  ELSE LET r2 == 2 * r
           q  == IF r2 >= b THEN 1 ELSE 0
       IN  q * 2 ^ (bits - 1) + FracDiv(r2 - q * b, b, bits - 1)
DivNat(a, b) == (a \div b) * Scale + FracDiv(a % b, b, FracBits)
FDiv(a, b) == Sgn(a, b) * DivNat(Abs(a), Abs(b))

----------------------------------------------------------------------------
(* unsigned int: <<high half, low half>>, arithmetic modulo 2^32 *)

HalfWord == 65536
ToU32(n) == <<(n \div HalfWord) % HalfWord, n % HalfWord>>
U32Add(a, b) ==
  LET lo == a[2] + b[2]
  IN  <<(a[1] + b[1] + lo \div HalfWord) % HalfWord, lo % HalfWord>>
U32Sub(a, b) ==
  LET lo == a[2] - b[2] + HalfWord
  IN  <<(a[1] - b[1] + HalfWord - 1 + lo \div HalfWord) % HalfWord, lo % HalfWord>>
(* a % m for a modulus m below 2^15 *)
U32Mod(a, m) == ((a[1] % m) * (HalfWord % m) + a[2]) % m

----------------------------------------------------------------------------
(* bounds of the model *)

(* rd() is called at most MaxCalls times *)
MaxCalls == 2
(* the widths and heights a caller passes are 2 .. MaxDim *)
MaxDim == 4
(* floats of device memory cudaMalloc can hand out *)
DeviceFloats == 12
(* rand() returns 0 .. RAND_MAX *)
RAND_MAX == 4
(* the stencil is probed on grids of 1 .. MaxProbeDim columns and rows *)
MaxProbeDim == 5
(* initializeConcentrations alone is run on grids of 2 .. MaxInitDim columns and rows *)
MaxInitDim == 8
(* rd_kernel alone is launched on grids of at most MaxBlocks blocks *)
MaxBlocks == 2

Dims == 2 .. MaxDim

----------------------------------------------------------------------------
(* state *)

VARIABLES
  pc,          \* host: "idle" (outside rd), "L147", "L154" (the line rd executes next),
               \* "exited"; "probe" when only the stencil is evaluated
  first_pass,  \* static bool first_pass
  devU, devV,  \* number of floats cudaMalloc gave U and V (0: none)
  U, V,        \* the device buffers, [0 .. n-1 -> float]
  result,      \* the caller's buffer result_devPtr, <<>> until written
  width, height,  \* arguments of the current (last) call of rd
  tpc,         \* per launched thread: the line it executes next
  loc,         \* per launched thread: vU, vV, laplace
  sticky,      \* the CUDA context holds an unrecoverable execution error
  lastError,   \* the launch of line 144 returned an error cudaGetLastError has not yet read
  calls,       \* calls of rd so far
  U0, V0,      \* history: U and V when the kernel was launched
  hist,        \* history: counters and flags of what has run
  probe        \* stencil probe: coordinate, neighbour indices, result

vars == <<pc, first_pass, devU, devV, U, V, result, width, height, tpc, loc,
          sticky, lastError, calls, U0, V0, hist, probe>>

NoField == [i \in {} |-> 0]
Cells(w, h) == 0 .. (w * h - 1)

----------------------------------------------------------------------------
(* calculateLaplacian *)

(* contents of memory outside a buffer; no launch of the model that runs
   threads reads it (see KernelUndefined) *)
Stray == 0 - 1
Load(array, i) == IF i \in DOMAIN array THEN array[i] ELSE Stray

(* line 52 without "+ height" *)
StencilUpNoBias(co, w, h) ==
  U32Mod(U32Sub(ToU32(co[2]), ToU32(1)), h) * w + co[1]
StencilUp(co, w, h) ==
  U32Mod(U32Add(U32Sub(ToU32(co[2]), ToU32(1)), ToU32(h)), h) * w + co[1]
(* line 53 without "% height" *)
StencilDownNoWrap(co, w, h) == (co[2] + 1) * w + co[1]
StencilDown(co, w, h) ==
  U32Mod(U32Add(ToU32(co[2]), ToU32(1)), h) * w + co[1]
StencilRight(co, w, h) ==
  co[2] * w + U32Mod(U32Add(ToU32(co[1]), ToU32(1)), w)
StencilLeft(co, w, h) ==
  co[2] * w + U32Mod(U32Add(U32Sub(ToU32(co[1]), ToU32(1)), ToU32(w)), w)

Neighbours(co, w, h) ==
  {StencilUp(co, w, h), StencilDown(co, w, h),
   StencilRight(co, w, h), StencilLeft(co, w, h)}

LaplacianOf(rightV, leftV, upV, downV, value, dxv) ==
  FDiv(rightV + leftV + upV + downV - 4 * value, FMul(dxv, dxv))

calculateLaplacian(dxv, array, co, value, w, h) ==
  LaplacianOf(Load(array, StencilRight(co, w, h)),
              Load(array, StencilLeft(co, w, h)),
              Load(array, StencilUp(co, w, h)),
              Load(array, StencilDown(co, w, h)),
              value, dxv)

----------------------------------------------------------------------------
(* rd: the constants of lines 127-141 *)

(* line 127, dim3 blockDim(16,16): the edge of a block, 2 in the model *)
blockDim == 2
dt == Fix(5, 10)
dx == 2 * Scale
F == Fix(12, 1000)
k == Fix(52, 1000)
Du(w, h) == FMul(Fix(4, 10000), Fix(w * h, 100))
Dv(w, h) == FMul(Fix(2, 10000), Fix(w * h, 100))

----------------------------------------------------------------------------
(* initializeConcentrations *)

(* the streams of rand() results a run may see, as functions of the draw number *)
RandStreams(n) ==
  { [i \in 1 .. n |-> 0],
    [i \in 1 .. n |-> RAND_MAX],
    [i \in 1 .. n |-> (3 * i) % (RAND_MAX + 1)] }
RandSeqs == RandStreams(2 * DeviceFloats)

(* lines 18-21 *)
Baseline(w, h) == [U |-> [i \in Cells(w, h) |-> Scale], V |-> [i \in Cells(w, h) |-> 0]]

(* lines 23-28: i and j run from the int (0.48f)*n while below (0.52f)*n *)
PatchRange(n) == {i \in 0 .. n : i >= (48 * n) \div 100 /\ 100 * i < 52 * n}
(* lines 23-24 with the bounds of the rows taken from width and those of the
   columns from height *)
InPatchSwapped(i, w, h) == (i \div w) \in PatchRange(w) /\ (i % w) \in PatchRange(h)
InPatch(i, w, h) == (i \div w) \in PatchRange(h) /\ (i % w) \in PatchRange(w)
Seeded(w, h) ==
  [U |-> [i \in Cells(w, h) |-> IF InPatch(i, w, h) THEN Fix(5, 10) ELSE Scale],
   V |-> [i \in Cells(w, h) |-> IF InPatch(i, w, h) THEN Fix(25, 100) ELSE 0]]

(* lines 33 and 37 without "- 0.01f" *)
RRandNoOffset(r) == FDiv(FMul(Fix(2, 100), r * Scale), RAND_MAX * Scale)

(* lines 33 and 37 *)
RRand(r) == FDiv(FMul(Fix(2, 100), r * Scale), RAND_MAX * Scale) - Fix(1, 100)

(* lines 34 and 38 with "+= rRand" *)
PerturbedAdditive(value, r) == value + RRand(r)

(* lines 34 and 38 *)
Perturbed(value, r) == value + FMul(RRand(r), value)

(* lines 31-40: cell n and the cells after it, rs[d + 1] being the next rand() *)
RECURSIVE Perturb(_, _, _, _)
Perturb(f, n, rs, d) ==
  IF n \notin DOMAIN f.U THEN f
  ELSE LET drawU == f.U[n] < Scale
           dV    == IF drawU THEN d + 1 ELSE d
           drawV == f.V[n] < Scale
           newU  == IF drawU THEN Perturbed(f.U[n], rs[d + 1]) ELSE f.U[n]
           newV  == IF drawV THEN Perturbed(f.V[n], rs[dV + 1]) ELSE f.V[n]
       IN  Perturb([U |-> [f.U EXCEPT ![n] = newU], V |-> [f.V EXCEPT ![n] = newV]],
                   n + 1, rs, IF drawV THEN dV + 1 ELSE dV)

initializeConcentrations(w, h, rs) == Perturb(Seeded(w, h), 0, rs, 0)

----------------------------------------------------------------------------
(* rd_kernel *)

(* the threads of the launch of line 144, <<blockIdx.x, blockIdx.y, threadIdx.x, threadIdx.y>> *)
Threads(w, h) ==
  (0 .. (w \div blockDim) - 1) \X (0 .. (h \div blockDim) - 1)
    \X (0 .. blockDim - 1) \X (0 .. blockDim - 1)

(* lines 69-70 without blockIdx * blockDim *)
CoThreadOnly(t) == <<t[3], t[4]>>

(* lines 69-73 *)
Co(t) == <<t[1] * blockDim + t[3], t[2] * blockDim + t[4]>>
Idx(t, w) == Co(t)[2] * w + Co(t)[1]

NoLocals == [vU |-> 0, vV |-> 0, laplace |-> 0]

(* line 85 with the feed term F*U in place of F*(1 - U) *)
NewUFeedOfU(vU, vV, laplace, w, h) ==
  vU + FMul(dt, FMul(Du(w, h), laplace) - FMul(FMul(vU, vV), vV) + FMul(F, vU))

(* lines 85-86 and 89-90 *)
NewU(vU, vV, laplace, w, h) ==
  vU + FMul(dt, FMul(Du(w, h), laplace) - FMul(FMul(vU, vV), vV) + FMul(F, Scale - vU))
NewV(vU, vV, laplace, w, h) ==
  vV + FMul(dt, FMul(Dv(w, h), laplace) + FMul(FMul(vU, vV), vV) - FMul(F + k, vV))

(* every index of the launch lies in the buffers *)
LaunchInBounds == width * height <= devU /\ width * height <= devV

(* rd is between its launch and its return *)
InRd == pc \in {"L147", "L154"}

Running(t) == InRd /\ ~sticky /\ LaunchInBounds /\ t \in DOMAIN tpc

Host == <<pc, first_pass, devU, devV, result, width, height, sticky, lastError, calls,
          U0, V0, hist, probe>>

(* line 83 *)
KernelLoad(t) ==
  /\ Running(t) /\ tpc[t] = "L83"
  /\ loc' = [loc EXCEPT ![t] = [@ EXCEPT !.vU = U[Idx(t, width)], !.vV = V[Idx(t, width)]]]
  /\ tpc' = [tpc EXCEPT ![t] = "L84"]
  /\ UNCHANGED <<Host, U, V>>

(* line 84 *)
KernelLaplaceU(t) ==
  /\ Running(t) /\ tpc[t] = "L84"
  /\ loc' = [loc EXCEPT ![t].laplace =
               calculateLaplacian(dx, U, Co(t), loc[t].vU, width, height)]
  /\ tpc' = [tpc EXCEPT ![t] = "L86"]
  /\ UNCHANGED <<Host, U, V>>

(* lines 85-86 *)
KernelStoreU(t) ==
  /\ Running(t) /\ tpc[t] = "L86"
  /\ U' = [U EXCEPT ![Idx(t, width)] =
             NewU(loc[t].vU, loc[t].vV, loc[t].laplace, width, height)]
  /\ tpc' = [tpc EXCEPT ![t] = "L88"]
  /\ UNCHANGED <<Host, V, loc>>

(* line 88 *)
KernelLaplaceV(t) ==
  /\ Running(t) /\ tpc[t] = "L88"
  /\ loc' = [loc EXCEPT ![t].laplace =
               calculateLaplacian(dx, V, Co(t), loc[t].vV, width, height)]
  /\ tpc' = [tpc EXCEPT ![t] = "L90"]
  /\ UNCHANGED <<Host, U, V>>

(* lines 89-90 with U[idx], which line 86 has stored, in place of vU *)
KernelStoreVFromStoredU(t) ==
  /\ Running(t) /\ tpc[t] = "L90"
  /\ V' = [V EXCEPT ![Idx(t, width)] =
             NewV(U[Idx(t, width)], loc[t].vV, loc[t].laplace, width, height)]
  /\ tpc' = [tpc EXCEPT ![t] = "done"]
  /\ UNCHANGED <<Host, U, loc>>

(* lines 89-90 *)
KernelStoreV(t) ==
  /\ Running(t) /\ tpc[t] = "L90"
  /\ V' = [V EXCEPT ![Idx(t, width)] =
             NewV(loc[t].vU, loc[t].vV, loc[t].laplace, width, height)]
  /\ tpc' = [tpc EXCEPT ![t] = "done"]
  /\ UNCHANGED <<Host, U, loc>>

KernelDone == \A t \in DOMAIN tpc : tpc[t] = "done"

----------------------------------------------------------------------------
(* the device between the launch of line 144 and the copy of line 154 *)

(* the kernel stops with an execution fault; the error stays in the context and
   every later runtime call returns it *)
KernelFault ==
  /\ InRd /\ ~sticky /\ ~KernelDone
  /\ sticky' = TRUE
  /\ hist' = [hist EXCEPT !.faulted = TRUE]
  /\ UNCHANGED <<pc, first_pass, devU, devV, U, V, result, width, height, tpc, loc,
                 lastError, calls, U0, V0, probe>>

(* what memory that no buffer owns may hold *)
Garbage == {0, Scale}

(* a launch whose indices leave the buffers has undefined behaviour: it faults
   (KernelFault) or it runs to its end over memory it does not own *)
KernelUndefined ==
  /\ InRd /\ ~sticky /\ ~LaunchInBounds /\ ~KernelDone
  /\ \E gu \in Garbage, gv \in Garbage :
       /\ U' = [i \in DOMAIN U |-> gu]
       /\ V' = [i \in DOMAIN V |-> gv]
  /\ tpc' = [t \in DOMAIN tpc |-> "done"]
  /\ UNCHANGED <<Host, loc>>

----------------------------------------------------------------------------
(* rd *)

(* line 107 *)
NeedsInit == first_pass

(* line 114 *)
MallocFailed(okU, okV) == ~(okU /\ okV)

(* line 123 left out *)
FirstPassKept(ran) == first_pass

(* line 123, reached when the buffers were allocated and filled *)
FirstPassAfter(ran) == IF ran THEN FALSE ELSE first_pass

(* line 130 *)
Misaligned(w, h) == w % blockDim # 0 \/ h % blockDim # 0

(* line 148 with the error ignored *)
LaunchFailedIgnored == FALSE

(* line 148: the error cudaGetLastError returns, that of the launch or one
   the context already holds *)
LaunchFailed == lastError \/ sticky

(* the copy of line 154 not ordered after the kernel *)
StreamReadyUnordered == TRUE

(* the default stream runs the copy of line 154 after the kernel of line 144;
   the copy returns at once, with the error, when the context holds one *)
StreamReady == sticky \/ KernelDone

(* lines 102-144: up to the launch; okU, okV, launchOk are what the runtime
   answers, rs is what rand() returns *)
Rd(w, h, okU, okV, rs, launchOk) ==
  LET init     == NeedsInit
      failed   == init /\ MallocFailed(okU, okV)
      ran      == init /\ ~failed
      fields   == initializeConcentrations(w, h, rs)
      newU     == IF ran THEN fields.U ELSE U
      newV     == IF ran THEN fields.V ELSE V
      bad      == Misaligned(w, h)
      exits    == failed \/ bad
      launched == ~exits /\ launchOk /\ ~sticky
  IN  /\ pc = "idle" /\ calls < MaxCalls
      /\ (init /\ okU) => w * h <= DeviceFloats
      /\ (init /\ okV) => w * h <= DeviceFloats - (IF okU THEN w * h ELSE 0)
      /\ calls' = calls + 1
      /\ width' = w /\ height' = h
      /\ devU' = IF init THEN (IF okU THEN w * h ELSE 0) ELSE devU
      /\ devV' = IF init THEN (IF okV THEN w * h ELSE 0) ELSE devV
      /\ U' = newU /\ V' = newV
      /\ first_pass' = FirstPassAfter(ran)
      /\ pc' = IF exits THEN "exited" ELSE "L147"
      /\ lastError' = (~exits /\ ~launched)
      /\ tpc' = IF launched THEN [t \in Threads(w, h) |-> "L83"]
                ELSE IF exits THEN tpc ELSE NoField
      /\ loc' = IF launched THEN [t \in Threads(w, h) |-> NoLocals]
                ELSE IF exits THEN loc ELSE NoField
      /\ U0' = IF launched THEN newU ELSE U0
      /\ V0' = IF launched THEN newV ELSE V0
      /\ hist' = [hist EXCEPT !.inits = IF ran THEN @ + 1 ELSE @,
                              !.launches = IF launched THEN @ + 1 ELSE @,
                              !.faulted = @ \/ exits \/ (~exits /\ ~launched),
                              !.mallocFailed = @ \/ failed,
                              !.copied = FALSE,
                              !.w0 = IF calls = 0 THEN w ELSE @,
                              !.h0 = IF calls = 0 THEN h ELSE @]
      /\ UNCHANGED <<result, sticky, probe>>

(* lines 147-151 *)
RdCheck ==
  /\ pc = "L147"
  /\ pc' = IF LaunchFailed THEN "exited" ELSE "L154"
  /\ lastError' = FALSE
  /\ UNCHANGED <<first_pass, devU, devV, U, V, result, width, height, tpc, loc, sticky,
                 calls, U0, V0, hist, probe>>

(* line 154 and the return; g is what lies behind U when the copy leaves it *)
RdCopy(g) ==
  /\ pc = "L154" /\ StreamReady
  /\ result' = IF sticky THEN result
               ELSE [i \in Cells(width, height) |-> IF i \in DOMAIN U THEN U[i] ELSE g]
  /\ hist' = [hist EXCEPT !.copied = ~sticky, !.copies = IF sticky THEN @ ELSE @ + 1]
  /\ pc' = "idle"
  /\ UNCHANGED <<first_pass, devU, devV, U, V, width, height, tpc, loc, sticky,
                 lastError, calls, U0, V0, probe>>

----------------------------------------------------------------------------

NoProbe == [set |-> FALSE, co |-> <<0, 0>>, up |-> 0, down |-> 0, right |-> 0, left |-> 0,
            result |-> 0]
NoHist == [inits |-> 0, launches |-> 0, copies |-> 0, faulted |-> FALSE,
           mallocFailed |-> FALSE, copied |-> FALSE, w0 |-> 0, h0 |-> 0]

Init ==
  /\ pc = "idle" /\ first_pass = TRUE
  /\ devU = 0 /\ devV = 0 /\ U = NoField /\ V = NoField /\ result = NoField
  /\ width = 0 /\ height = 0
  /\ tpc = NoField /\ loc = NoField
  /\ sticky = FALSE /\ lastError = FALSE /\ calls = 0
  /\ U0 = NoField /\ V0 = NoField
  /\ hist = NoHist /\ probe = NoProbe

(* cudaMalloc and rand() are called by the first pass only *)
MallocAnswers == IF NeedsInit THEN BOOLEAN ELSE {TRUE}
RandAnswers == IF NeedsInit THEN RandSeqs ELSE {[i \in 1 .. 2 * DeviceFloats |-> 0]}

Call ==
  \E w \in Dims, h \in Dims, okU \in MallocAnswers, okV \in MallocAnswers,
     rs \in RandAnswers, launchOk \in BOOLEAN : Rd(w, h, okU, okV, rs, launchOk)

Copy == \E g \in (IF LaunchInBounds THEN {0} ELSE Garbage) : RdCopy(g)

ThreadStep(t) ==
  \/ KernelLoad(t)
  \/ KernelLaplaceU(t)
  \/ KernelStoreU(t)
  \/ KernelLaplaceV(t)
  \/ KernelStoreV(t)

(* the device runs the threads in any interleaving of their statements *)
Thread == \E t \in DOMAIN tpc : ThreadStep(t)

(* the device runs one thread at a time, each to its end, in any order *)
InBody(t) == tpc[t] \notin {"L83", "done"}
ThreadSerial ==
  \E t \in DOMAIN tpc :
    /\ \A o \in DOMAIN tpc \ {t} : ~InBody(o)
    /\ ThreadStep(t)

FirstCall == first_pass /\ calls = 0 /\ Call

(* up to MaxCalls calls of rd; each launch runs its threads one at a time *)
Next == Call \/ RdCheck \/ ThreadSerial \/ KernelFault \/ KernelUndefined \/ Copy
Spec == Init /\ [][Next]_vars

(* the first call of rd, its threads interleaved in every way *)
NextStep == FirstCall \/ RdCheck \/ Thread \/ KernelFault \/ Copy
SpecStep == Init /\ [][NextStep]_vars

----------------------------------------------------------------------------
(* calculateLaplacian on its own: one grid, the stencil evaluated at a coordinate *)

ProbeDims == 1 .. MaxProbeDim
ProbeFields(w, h) ==
  { [i \in Cells(w, h) |-> 0],
    [i \in Cells(w, h) |-> Fix(1, 2)],
    [i \in Cells(w, h) |-> Scale],
    [i \in Cells(w, h) |-> Fix(1, 3)],
    [i \in Cells(w, h) |-> Fix(i, 100)] }

InitProbe ==
  /\ pc = "probe" /\ first_pass = TRUE
  /\ width \in ProbeDims /\ height \in ProbeDims
  /\ U \in ProbeFields(width, height) /\ V = NoField
  /\ devU = width * height /\ devV = 0 /\ result = NoField
  /\ tpc = NoField /\ loc = NoField
  /\ sticky = FALSE /\ lastError = FALSE /\ calls = 0
  /\ U0 = NoField /\ V0 = NoField
  /\ hist = NoHist /\ probe = NoProbe

Probe(x, y) ==
  /\ pc = "probe"
  /\ probe' = [set |-> TRUE, co |-> <<x, y>>,
               up |-> StencilUp(<<x, y>>, width, height),
               down |-> StencilDown(<<x, y>>, width, height),
               right |-> StencilRight(<<x, y>>, width, height),
               left |-> StencilLeft(<<x, y>>, width, height),
               result |-> calculateLaplacian(dx, U, <<x, y>>, U[y * width + x], width, height)]
  /\ UNCHANGED <<pc, first_pass, devU, devV, U, V, result, width, height, tpc, loc,
                 sticky, lastError, calls, U0, V0, hist>>

NextProbe == \E x \in 0 .. width - 1, y \in 0 .. height - 1 : Probe(x, y)
SpecProbe == InitProbe /\ [][NextProbe]_vars

----------------------------------------------------------------------------
(* rd_kernel on its own: passes over the fields of lines 18-21, the flat state
   U = 1, V = 0, on a grid of one block, the threads interleaved in every way *)

FlatLaunch(w, h) ==
  /\ pc = "L147" /\ first_pass = FALSE
  /\ width = w /\ height = h
  /\ devU = width * height /\ devV = width * height
  /\ U = Baseline(width, height).U /\ V = Baseline(width, height).V
  /\ result = NoField
  /\ tpc = [t \in Threads(width, height) |-> "L83"]
  /\ loc = [t \in Threads(width, height) |-> NoLocals]
  /\ sticky = FALSE /\ lastError = FALSE /\ calls = 1
  /\ U0 = U /\ V0 = V
  /\ hist = [NoHist EXCEPT !.inits = 1, !.launches = 1, !.w0 = width, !.h0 = height]
  /\ probe = NoProbe

InitFlat == FlatLaunch(blockDim, blockDim)

(* line 144 again, by the next call of rd, on the fields as the pass left them *)
Relaunch ==
  /\ pc = "L147" /\ ~sticky /\ KernelDone /\ calls < MaxCalls
  /\ calls' = calls + 1
  /\ tpc' = [t \in Threads(width, height) |-> "L83"]
  /\ loc' = [t \in Threads(width, height) |-> NoLocals]
  /\ U0' = U /\ V0' = V
  /\ hist' = [hist EXCEPT !.launches = @ + 1]
  /\ UNCHANGED <<pc, first_pass, devU, devV, U, V, result, width, height, sticky,
                 lastError, probe>>

NextFlat == Thread \/ Relaunch
SpecFlat == InitFlat /\ [][NextFlat]_vars

(* one pass over the flat state on a grid of several blocks, line 144, the
   threads run one at a time in any order *)
LaunchGrids == {g \in (1 .. MaxBlocks) \X (1 .. MaxBlocks) : g[1] * g[2] <= MaxBlocks}
InitLaunch == \E g \in LaunchGrids : FlatLaunch(g[1] * blockDim, g[2] * blockDim)
NextLaunch == ThreadSerial
SpecLaunch == InitLaunch /\ [][NextLaunch]_vars

----------------------------------------------------------------------------
(* initializeConcentrations on its own, statement by statement; U and V stand
   for the host arrays _U and _V that lines 43-44 upload, U0 and V0 keep them as
   they were before the perturbation *)

InitDims == 2 .. MaxInitDim

InitInitializer ==
  /\ pc = "L18" /\ first_pass = TRUE
  /\ width \in InitDims /\ height \in InitDims
  /\ devU = width * height /\ devV = width * height
  /\ U = NoField /\ V = NoField /\ result = NoField
  /\ tpc = NoField /\ loc = NoField
  /\ sticky = FALSE /\ lastError = FALSE /\ calls = 1
  /\ U0 = NoField /\ V0 = NoField
  /\ hist = NoHist /\ probe = NoProbe

InitFrame == <<first_pass, devU, devV, result, width, height, tpc, loc, sticky,
               lastError, calls, hist, probe>>

(* lines 18-21 *)
FillBaseline ==
  /\ pc = "L18" /\ pc' = "L23"
  /\ U' = Baseline(width, height).U /\ V' = Baseline(width, height).V
  /\ UNCHANGED <<InitFrame, U0, V0>>

(* lines 23-28 *)
SeedPatch ==
  /\ pc = "L23" /\ pc' = "L31"
  /\ U' = Seeded(width, height).U /\ V' = Seeded(width, height).V
  /\ UNCHANGED <<InitFrame, U0, V0>>

(* lines 31-40 *)
PerturbAll(rs) ==
  /\ pc = "L31" /\ pc' = "L43"
  /\ U0' = U /\ V0' = V
  /\ LET fields == Perturb([U |-> U, V |-> V], 0, rs, 0)
     IN  U' = fields.U /\ V' = fields.V
  /\ UNCHANGED InitFrame

NextInit ==
  \/ FillBaseline
  \/ SeedPatch
  \/ \E rs \in RandStreams(2 * width * height) : PerturbAll(rs)
SpecInit == InitInitializer /\ [][NextInit]_vars

----------------------------------------------------------------------------
(* C1, C2: the neighbour reads of a step *)

(* a thread that executes line 84 or line 88 in this step *)
ReadsU(t) == InRd /\ tpc' # tpc /\ tpc[t] = "L84" /\ tpc'[t] = "L86"
ReadsV(t) == InRd /\ tpc' # tpc /\ tpc[t] = "L88" /\ tpc'[t] = "L90"

(* C1: whenever a thread reads its four neighbours, for U (line 84) or for V
   (line 88), each of them still holds the value it had when the step began. *)
C1_NeighbourReadsArePreStep ==
  [][\A t \in DOMAIN tpc :
       /\ ReadsU(t) => \A n \in Neighbours(Co(t), width, height) : Load(U, n) = Load(U0, n)
       /\ ReadsV(t) => \A n \in Neighbours(Co(t), width, height) : Load(V, n) = Load(V0, n)]_vars

(* the synchronous step: every cell from the fields as they were at the launch *)
CellCo(i, w) == <<i % w, i \div w>>
ReferenceU(u, v, w, h) ==
  [i \in DOMAIN u |->
     NewU(u[i], v[i], calculateLaplacian(dx, u, CellCo(i, w), u[i], w, h), w, h)]
ReferenceV(u, v, w, h) ==
  [i \in DOMAIN v |->
     NewV(u[i], v[i], calculateLaplacian(dx, v, CellCo(i, w), v[i], w, h), w, h)]

StepComplete == InRd /\ ~sticky /\ LaunchInBounds /\ DOMAIN tpc # {} /\ KernelDone

(* C2: when all threads of a step have finished, U and V are the result of the
   synchronous step on the fields of the launch, whatever the order of the threads. *)
C2_StepEqualsReference ==
  StepComplete =>
    /\ U = ReferenceU(U0, V0, width, height)
    /\ V = ReferenceV(U0, V0, width, height)

----------------------------------------------------------------------------
(* C3, C4, C5: the calls of rd *)

(* a call of rd begins in this step *)
Enters == pc = "idle" /\ calls' = calls + 1

(* C3: a call whose width or height is not a multiple of the tile edge exits
   before any buffer is allocated, initialized or written and before any
   launch, the first call included. *)
C3_MisalignedFailsBeforeBuffers ==
  [][(Enters /\ Misaligned(width', height')) =>
       /\ pc' = "exited"
       /\ devU' = devU /\ devV' = devV /\ U' = U /\ V' = V /\ result' = result
       /\ hist'.inits = hist.inits /\ hist'.launches = hist.launches]_vars

(* C4: a call whose width or height differs from those of the first call is
   rejected: no kernel is launched for it, so the fields are never stepped with
   dimensions other than those they were allocated with. *)
C4_ChangedDimensionsRejected ==
  [][(Enters /\ calls > 0 /\ (width' # hist.w0 \/ height' # hist.h0)) =>
       hist'.launches = hist.launches]_vars

(* C5: the buffers are allocated and initialized by the first call and by no
   later one: first_pass never becomes true again, a later call enters with
   the fields as the last pass left them, and when the n-th call returns after
   its copy exactly n kernels have been launched on one initialization. *)
C5_InitializedOnce ==
  [][/\ hist'.inits <= 1
     /\ ~first_pass => ~first_pass'
     /\ (Enters /\ ~first_pass) =>
          (U' = U /\ V' = V /\ devU' = devU /\ devV' = devV /\ hist'.inits = hist.inits)
     /\ (Enters /\ first_pass /\ pc' # "exited") => hist'.inits = 1
     /\ (pc = "L154" /\ pc' = "idle" /\ hist'.copied) =>
          (hist'.inits = 1 /\ hist'.launches = calls' /\ hist'.copies = calls')]_vars

C5_Witness ==
  pc = "idle" /\ calls = 2 /\ ~first_pass /\ hist.inits = 1 /\ hist.copies = 2 /\ hist.copied

----------------------------------------------------------------------------
(* C6, C7, C8: the pass, the copy and the faults *)

(* C6: the copy of line 154 is made only when every thread of the launch has
   finished, and what it leaves in the output buffer is U as the pass left it. *)
C6_CopyAfterWholePass ==
  [][(pc = "L154" /\ pc' = "idle" /\ hist'.copied) =>
       /\ KernelDone
       /\ U' = U
       /\ DOMAIN result' = Cells(width, height)
       /\ \A i \in Cells(width, height) \cap DOMAIN U : result'[i] = U[i]]_vars

C6_Witness ==
  /\ pc = "idle" /\ hist.copied /\ KernelDone /\ DOMAIN tpc # {}
  /\ result = U /\ \A i \in DOMAIN U : U[i] # U0[i]

(* C7: once a fault has occurred (misaligned dimensions, a failed allocation,
   a failed launch, an execution fault) no step changes U, V or the output
   buffer, no kernel is launched and no copy is made; a failed allocation
   leaves the fields uninitialized and ends the process. *)
C7_FaultsAreFatal ==
  [][/\ hist.faulted =>
          /\ U' = U /\ V' = V /\ result' = result
          /\ hist'.launches = hist.launches /\ hist'.copies = hist.copies
     /\ hist'.mallocFailed =>
          (pc' = "exited" /\ hist'.inits = 0 /\ hist'.launches = 0
             /\ U' = NoField /\ V' = NoField)]_vars

C7_Witness ==
  pc = "exited" /\ sticky /\ hist.faulted /\ calls = 2 /\ hist.launches = 1 /\ hist.copies = 0

(* C8: rd returns only with every thread of its launch finished, each cell of
   U and V stored once, and U copied to the output buffer. *)
C8_ReturnsOnlyWhenComplete ==
  (pc = "idle" /\ calls > 0) =>
    (DOMAIN tpc # {} /\ KernelDone /\ hist.copied /\ result = U)

----------------------------------------------------------------------------
(* C9, C10: the stencil *)

(* C9: the four indices of the stencil at (x, y) are those of the toroidal
   neighbours, each axis wrapped on its own, and lie in the grid. *)
C9_NeighboursAreToroidal ==
  probe.set =>
    LET x == probe.co[1]
        y == probe.co[2]
    IN  /\ probe.up = ((y - 1) % height) * width + x
        /\ probe.down = ((y + 1) % height) * width + x
        /\ probe.left = y * width + ((x - 1) % width)
        /\ probe.right = y * width + ((x + 1) % width)
        /\ {probe.up, probe.down, probe.left, probe.right} \subseteq Cells(width, height)

C9_Witness ==
  /\ probe.set /\ width >= 3 /\ height >= 3
  /\ probe.co = <<width - 1, 0>>
  /\ probe.up = (height - 1) * width + width - 1
  /\ probe.right = 0

Uniform(f) == \A i \in DOMAIN f, j \in DOMAIN f : f[i] = f[j]

(* C10: on a field with the same value in every cell the stencil returns 0 at
   every coordinate. *)
C10_UniformLaplacianIsZero ==
  (probe.set /\ Uniform(U)) => probe.result = 0

C10_Witness ==
  /\ probe.set /\ Uniform(U) /\ U[0] = Fix(1, 3) /\ width >= 2 /\ height >= 2
  /\ probe.co = <<width - 1, height - 1>> /\ probe.result = 0

----------------------------------------------------------------------------
(* C11: the flat state *)

(* C11: on the flat state U = 1, V = 0 every store of every pass leaves U = 1
   and V = 0 in every cell, whatever the interleaving of the threads and however
   many passes are made. *)
C11_FlatStateIsFixed ==
  \A i \in Cells(width, height) : U[i] = Scale /\ V[i] = 0

C11_Witness ==
  /\ calls = 2 /\ KernelDone /\ DOMAIN tpc = Threads(width, height)
  /\ \A i \in Cells(width, height) : U[i] = Scale /\ V[i] = 0 /\ U0[i] = Scale /\ V0[i] = 0

----------------------------------------------------------------------------
(* C12, C13, C16: the initial fields *)

RowOf(i) == i \div width
ColOf(i) == i % width
IsSeed(i) == U[i] = Fix(5, 10) /\ V[i] = Fix(25, 100)
IsBase(i) == U[i] = Scale /\ V[i] = 0

(* C12 as stated: before the perturbation the cells with U = 0.5, V = 0.25 are
   exactly those with 0.48*height <= row < 0.52*height and
   0.48*width <= column < 0.52*width, and every other cell has U = 1, V = 0. *)
C12_PatchIsFractionalRange ==
  pc = "L31" =>
    \A i \in Cells(width, height) :
      IF /\ 48 * height <= 100 * RowOf(i) /\ 100 * RowOf(i) < 52 * height
         /\ 48 * width <= 100 * ColOf(i) /\ 100 * ColOf(i) < 52 * width
      THEN IsSeed(i) ELSE IsBase(i)

(* C12: before the perturbation the cells with U = 0.5, V = 0.25 are exactly
   those whose row is at least 0.48*height cut to an integer and below
   0.52*height and whose column is at least 0.48*width cut to an integer and
   below 0.52*width; every other cell has U = 1, V = 0. *)
C12_PatchFromTruncatedBound ==
  pc = "L31" =>
    \A i \in Cells(width, height) :
      IF /\ (48 * height) \div 100 <= RowOf(i) /\ 100 * RowOf(i) < 52 * height
         /\ (48 * width) \div 100 <= ColOf(i) /\ 100 * ColOf(i) < 52 * width
      THEN IsSeed(i) ELSE IsBase(i)

C12_Witness ==
  /\ pc = "L31" /\ width = 8 /\ height = 4
  /\ IsSeed(1 * 8 + 3) /\ IsSeed(2 * 8 + 4) /\ IsBase(0 * 8 + 3) /\ IsBase(3 * 8 + 4)
  /\ IsBase(1 * 8 + 2) /\ IsBase(2 * 8 + 5)

(* C13: after the perturbation every cell of the seeded patch has
   |U - 0.5| <= 0.005 and |V - 0.25| <= 0.0025, whatever rand() returned. *)
C13_PatchStaysNearSeed ==
  pc = "L43" =>
    \A i \in Cells(width, height) :
      InPatch(i, width, height) =>
        /\ 1000 * Abs(U[i] - Fix(5, 10)) <= 5 * Scale
        /\ 2000 * Abs(V[i] - Fix(25, 100)) <= 5 * Scale

C13_Witness ==
  /\ pc = "L43"
  /\ \E i, j \in Cells(width, height) :
       /\ InPatch(i, width, height) /\ InPatch(j, width, height)
       /\ U0[i] = Fix(5, 10) /\ U[i] > Fix(5, 10) /\ V0[i] = Fix(25, 100) /\ V[i] < Fix(25, 100)
       /\ U0[j] = Fix(5, 10) /\ U[j] < Fix(5, 10)

(* C16: after the whole of the initialization every cell outside the seeded
   patch has U = 1 and V = 0 exactly, as before the perturbation, whatever
   rand() returned. *)
C16_OutsidePatchUntouched ==
  pc = "L43" =>
    \A i \in Cells(width, height) :
      ~InPatch(i, width, height) =>
        (U[i] = Scale /\ V[i] = 0 /\ U0[i] = Scale /\ V0[i] = 0)

C16_Witness ==
  /\ pc = "L43" /\ width = 4 /\ height = 6
  /\ \A i \in Cells(width, height) :
       IF InPatch(i, width, height) THEN U[i] # U0[i] /\ V[i] # V0[i]
       ELSE U[i] = Scale /\ V[i] = 0
  /\ ~InPatch(0, width, height) /\ InPatch(2 * 4 + 1, width, height)

----------------------------------------------------------------------------
(* C14: threads and cells *)

(* the threads of the launch that have executed the store of line 86, of line 90 *)
ThreadsStoredU == {t \in DOMAIN tpc : tpc[t] \in {"L88", "L90", "done"}}
ThreadsStoredV == {t \in DOMAIN tpc : tpc[t] = "done"}
(* the indices the threads of T compute at line 73 *)
IndicesOf(T) == {Idx(t, width) : t \in T}

(* C14: on a grid whose width and height are multiples of the tile edge, the
   indices the threads of the launch compute are those of the cells,
   0 .. width*height - 1 and no other, one thread for each cell; never have two
   threads stored to one cell, and when the pass is over every cell has been
   stored once in U and once in V. *)
C14_ThreadsMapOneToOne ==
  (~Misaligned(width, height) /\ DOMAIN tpc # {}) =>
    /\ IndicesOf(DOMAIN tpc) = Cells(width, height)
    /\ Cardinality(DOMAIN tpc) = width * height
    /\ Cardinality(IndicesOf(ThreadsStoredU)) = Cardinality(ThreadsStoredU)
    /\ Cardinality(IndicesOf(ThreadsStoredV)) = Cardinality(ThreadsStoredV)
    /\ KernelDone =>
         /\ IndicesOf(ThreadsStoredU) = Cells(width, height)
         /\ IndicesOf(ThreadsStoredV) = Cells(width, height)

C14_Witness ==
  /\ width = 2 * blockDim /\ height = blockDim /\ KernelDone
  /\ DOMAIN tpc = Threads(width, height)
  /\ Cardinality(ThreadsStoredU) = width * height
  /\ IndicesOf(ThreadsStoredV) = Cells(width, height)

----------------------------------------------------------------------------
(* C15: the values a thread computes from *)

(* C15: the vU and vV a thread holds are its cell's U and V as they were when
   the step began; the U it stores at line 86 and the V it stores at line 90
   are computed from these two, so the term U*V*V of the V update has the U of
   before the store of line 86. *)
C15_OwnValuesArePreStep ==
  \A t \in DOMAIN tpc :
    LET idx == Idx(t, width)
    IN  /\ tpc[t] # "L83" => (loc[t].vU = U0[idx] /\ loc[t].vV = V0[idx])
        /\ tpc[t] = "L88" =>
             U[idx] = NewU(U0[idx], V0[idx], loc[t].laplace, width, height)
        /\ tpc[t] = "done" =>
             V[idx] = NewV(U0[idx], V0[idx], loc[t].laplace, width, height)

C15_Witness ==
  \E t \in DOMAIN tpc :
    LET idx == Idx(t, width)
    IN  /\ tpc[t] = "done" /\ U[idx] # U0[idx]
        /\ V[idx] = NewV(U0[idx], V0[idx], loc[t].laplace, width, height)
        /\ V[idx] # NewV(U[idx], V0[idx], loc[t].laplace, width, height)

====
